---- MODULE Spec2Model ----
(***************************************************************************)
(* FlowForge glue scripts as state machines.                               *)
(*                                                                         *)
(*  - scripts/train_remyr.py : the delta sweep, one blocking os.system     *)
(*    call per delta (specifications Spec and FairSpec).  Two launches run *)
(*    side by side: p1 is the script as it is in the source (reversed      *)
(*    order, namespace new2), p2 is either the same script launched again  *)
(*    or its forward variant (given order, namespace new).                 *)
(*  - scripts/plot_train.py and flowforge/scripts/plot_train.py : the      *)
(*    Training Record views (specification TrainSpec).                     *)
(*  - scripts/plot_trace.py : the utility normalisation of a Trace         *)
(*    (specification TraceSpec).                                           *)
(***************************************************************************)
EXTENDS Integers, Sequences, FiniteSets, TLC

VARIABLES
    \* ---- train_remyr.py ----
    sweep,      \* sweep[p]   : the variant launch p runs, [ns, direction]
    pc,         \* pc[p]      : "for" (line 3), "system" (line 4, before the call),
                \*              "wait" (line 4, blocked inside os.system), "done"
    queue,      \* queue[p]   : what the loop's iterator has still to yield
    i,          \* i[p]       : the loop variable
    children,   \* children[p]: the trainer invocations p has started, in start
                \*              order, each [delta, cmd, st, status]; st is "running",
                \*              "wrote" or "exited", status the exit status
                \*              (-1 while the trainer lives)
    results,    \* results[p] : the values os.system has returned to p so far, in
                \*              the order of the calls (the script keeps none)
    fs,         \* the output files opened for writing: {[path, proc, k]}
    \* ---- plot_train.py (both copies) ----
    train_file,     \* which copy runs: "scripts" or "flowforge/scripts"
    train_input,    \* the loaded JSON object: [timestamps, utility, bandwidth, rtt]
    train_pc,       \* the line the script is at: "idle", "read" (13-16),
                    \* "plot0" (19-21), "plot1" (22), "plot2" (23), "plot3" (24),
                    \* "show" (26), "done", "raised"
    train_series,   \* the globals timestamps, utility, bandwidth, rtt
    train_axes,     \* train_axes[n]: what axes[n-1].plot has drawn, [drawn, x, y]
    train_warned,   \* numpy's "divide by zero" RuntimeWarning was emitted
    train_raised,   \* the exception that ended the script, or "none"
    \* ---- plot_trace.py ----
    trace_input,    \* the loaded JSON object: [timestamps, aggregate_utility]
    trace_pc,       \* "idle", "utilities" (13-14), "mean" (15), "std" (16),
                    \* "norm" (17), "plot" (19-34), "show" (36), "done", "raised"
    trace_utilities,\* the global utilities: samples [nan, v]
    trace_mean,     \* the global mean: [nan, num, den], the quotient num/den
    trace_std,      \* the global std: [nan, rad, den], sqrt(rad)/den
    trace_norm,     \* the global norm_utilities: samples [nan, num, rad],
                    \* num/sqrt(rad); bound is FALSE until line 17 has run
    trace_drawn,    \* what axes[0][2].plot has drawn
    trace_warned,   \* the RuntimeWarnings numpy has emitted
    trace_raised    \* the exception that ended the script, or "none"

sweepVars == <<sweep, pc, queue, i, children, results, fs>>

trainVars == <<train_file, train_input, train_pc, train_series, train_axes,
               train_warned, train_raised>>

traceVars == <<trace_input, trace_pc, trace_utilities, trace_mean, trace_std,
               trace_norm, trace_drawn, trace_warned, trace_raised>>

vars == <<sweepVars, trainVars, traceVars>>

----------------------------------------------------------------------------
(* Bounds *)

\* Trainer exit statuses range over 0..MaxExit.
MaxExit == 1

\* The series of a loaded file have at most MaxLen samples.
MaxLen == 3

ExitStatuses == 0..MaxExit

----------------------------------------------------------------------------
(* train_remyr.py *)

Procs == {"p1", "p2"}

\* The list literal of line 3.
Parameters == <<"0.1", "1", "10", "100">>

\* A variant of reversed that yields the elements first to last.
reversed_forward(s) == s

\* Python's reversed(): yields the elements last to first.
reversed(s) == [k \in 1..Len(s) |-> s[Len(s) + 1 - k]]

\* The script as it is in the source: reversed order, namespace new2.
ReversedSweep == [ns |-> "new2", direction |-> "reversed"]

\* The forward sweep over the same deltas into namespace new.
ForwardSweep == [ns |-> "new", direction |-> "forward"]

Sweeps == {ReversedSweep, ForwardSweep}

\* A variant of command whose --dna path leaves the namespace out.
command_no_ns(ns, d) ==
    [c        |-> "configs\\trainer\\remyr\\default.json",
     net      |-> "configs\\network\\remy\\default.json",
     util     |-> "configs\\utility\\delta" \o d \o ".json",
     dna      |-> "trained/remyr/delta" \o d \o "/delta" \o d \o ".remyr.dna",
     eval     |-> "configs\\eval\\very_short.json",
     evalTimes |-> 100,
     progress |-> "trained/remyr/" \o ns \o "/delta" \o d \o "/trainout.json"]

\* A variant of command whose --progress path leaves the delta out.
command_shared_log(ns, d) ==
    [c        |-> "configs\\trainer\\remyr\\default.json",
     net      |-> "configs\\network\\remy\\default.json",
     util     |-> "configs\\utility\\delta" \o d \o ".json",
     dna      |-> "trained/remyr/" \o ns \o "/delta" \o d \o "/delta" \o d \o ".remyr.dna",
     eval     |-> "configs\\eval\\very_short.json",
     evalTimes |-> 100,
     progress |-> "trained/remyr/" \o ns \o "/trainout.json"]

\* The f-string of line 4 with the namespace segment as a parameter: the
\* arguments of the trainer invocation for delta d.
command(ns, d) ==
    [c        |-> "configs\\trainer\\remyr\\default.json",
     net      |-> "configs\\network\\remy\\default.json",
     util     |-> "configs\\utility\\delta" \o d \o ".json",
     dna      |-> "trained/remyr/" \o ns \o "/delta" \o d \o "/delta" \o d \o ".remyr.dna",
     eval     |-> "configs\\eval\\very_short.json",
     evalTimes |-> 100,
     progress |-> "trained/remyr/" \o ns \o "/delta" \o d \o "/trainout.json"]

\* The order in which the loop of line 3 yields the deltas.
order(parameters, direction) ==
    IF direction = "reversed" THEN reversed(parameters) ELSE parameters

\* The RunSpecs of one sweep, in execution order.
plan(parameters, ns, direction) ==
    [k \in 1..Len(parameters) |-> command(ns, order(parameters, direction)[k])]

\* The RunSpecs of each sweep.
plans == [sw \in Sweeps |-> plan(Parameters, sw.ns, sw.direction)]

\* The paths a trainer invocation writes.
outputs(cmd) == {cmd.dna, cmd.progress}

SweepInit ==
    /\ sweep \in {f \in [Procs -> Sweeps] : f["p1"] = ReversedSweep}
    /\ pc = [p \in Procs |-> "for"]
    /\ queue = [p \in Procs |-> order(Parameters, sweep[p].direction)]
    /\ i = [p \in Procs |-> "unbound"]
    /\ children = [p \in Procs |-> <<>>]
    /\ results = [p \in Procs |-> <<>>]
    /\ fs = {}

\* Line 3: the for statement fetches the next delta, or ends the script.
for_next(p) ==
    /\ pc[p] = "for"
    /\ IF queue[p] = <<>>
       THEN /\ pc' = [pc EXCEPT ![p] = "done"]
            /\ UNCHANGED <<queue, i>>
       ELSE /\ i' = [i EXCEPT ![p] = Head(queue[p])]
            /\ queue' = [queue EXCEPT ![p] = Tail(queue[p])]
            /\ pc' = [pc EXCEPT ![p] = "system"]
    /\ UNCHANGED <<sweep, children, results, fs>>
    /\ UNCHANGED <<trainVars, traceVars>>

\* A variant of system_call that starts the trainer without waiting for it.
system_call_nowait(p) ==
    /\ pc[p] = "system"
    /\ children' = [children EXCEPT ![p] =
           Append(@, [delta |-> i[p], cmd |-> command(sweep[p].ns, i[p]),
                      st |-> "running", status |-> -1])]
    /\ pc' = [pc EXCEPT ![p] = "for"]
    /\ UNCHANGED <<sweep, queue, i, results, fs>>
    /\ UNCHANGED <<trainVars, traceVars>>

\* Line 4: os.system starts the trainer and blocks.
system_call(p) ==
    /\ pc[p] = "system"
    /\ children' = [children EXCEPT ![p] =
           Append(@, [delta |-> i[p], cmd |-> command(sweep[p].ns, i[p]),
                      st |-> "running", status |-> -1])]
    /\ pc' = [pc EXCEPT ![p] = "wait"]
    /\ UNCHANGED <<sweep, queue, i, results, fs>>
    /\ UNCHANGED <<trainVars, traceVars>>

\* The trainer opens its --dna and --progress outputs.
trainer_write(p, k) ==
    /\ k \in 1..Len(children[p])
    /\ children[p][k].st = "running"
    /\ fs' = fs \cup {[path |-> f, proc |-> p, k |-> k] : f \in outputs(children[p][k].cmd)}
    /\ children' = [children EXCEPT ![p][k].st = "wrote"]
    /\ UNCHANGED <<sweep, pc, queue, i, results>>
    /\ UNCHANGED <<trainVars, traceVars>>

\* The trainer exits with status s.
trainer_exit(p, k, s) ==
    /\ k \in 1..Len(children[p])
    /\ children[p][k].st = "wrote"
    /\ children' = [children EXCEPT ![p][k].st = "exited", ![p][k].status = s]
    /\ UNCHANGED <<sweep, pc, queue, i, results, fs>>
    /\ UNCHANGED <<trainVars, traceVars>>

\* A variant of system_return that raises on a non-zero status, as
\* subprocess.check_call would: the script dies.
system_return_check(p) ==
    /\ pc[p] = "wait"
    /\ children[p][Len(children[p])].st = "exited"
    /\ results' = [results EXCEPT ![p] = Append(@, children[p][Len(children[p])].status)]
    /\ pc' = [pc EXCEPT ![p] =
           IF children[p][Len(children[p])].status = 0 THEN "for" ELSE "done"]
    /\ UNCHANGED <<sweep, queue, i, children, fs>>
    /\ UNCHANGED <<trainVars, traceVars>>

\* Line 4: os.system returns the trainer's exit status (the command
\* interpreter's return value on Windows, which the backslash paths of the
\* command assume); the expression statement drops the value and the loop
\* goes on.
system_return(p) ==
    /\ pc[p] = "wait"
    /\ children[p][Len(children[p])].st = "exited"
    /\ results' = [results EXCEPT ![p] = Append(@, children[p][Len(children[p])].status)]
    /\ pc' = [pc EXCEPT ![p] = "for"]
    /\ UNCHANGED <<sweep, queue, i, children, fs>>
    /\ UNCHANGED <<trainVars, traceVars>>

\* One step of launch p or of a trainer it started.
Step(p) ==
    \/ for_next(p)
    \/ system_call(p)
    \/ \E k \in 1..Len(Parameters) : trainer_write(p, k)
    \/ \E k \in 1..Len(Parameters) : \E s \in ExitStatuses : trainer_exit(p, k, s)
    \/ system_return(p)

\* The sweep has been launched and has not taken a step.
SweepIdle ==
    /\ sweep = [p \in Procs |-> ReversedSweep]
    /\ pc = [p \in Procs |-> "for"]
    /\ queue = [p \in Procs |-> order(Parameters, sweep[p].direction)]
    /\ i = [p \in Procs |-> "unbound"]
    /\ children = [p \in Procs |-> <<>>]
    /\ results = [p \in Procs |-> <<>>]
    /\ fs = {}

----------------------------------------------------------------------------
(* plot_trace.py *)

\* All sequences over S of length 0..MaxLen.
SeqsUpTo(S) == UNION {[1..n -> S] : n \in 0..MaxLen}

\* An axes object nothing has been drawn on.
NotDrawn == [drawn |-> FALSE, x |-> <<>>, y |-> <<>>]

\* A JSON null.
Null == [null |-> TRUE, v |-> 0]

Number(v) == [null |-> FALSE, v |-> v]

AggregateUtilityValues == {Null, Number(1), Number(3)}

\* The Traces the script may be given; timestamps increase.
Traces ==
    {[timestamps |-> [k \in 1..n |-> k], aggregate_utility |-> u] :
        n \in 0..MaxLen, u \in SeqsUpTo(AggregateUtilityValues)}

\* Line 14: np.nan for None, the value otherwise.
to_nan(x) == [nan |-> x.null, v |-> x.v]

\* utilities[~np.isnan(utilities)]
not_nan(u) == SelectSeq(u, LAMBDA x : ~x.nan)

RECURSIVE Sum(_)
Sum(xs) == IF xs = <<>> THEN 0 ELSE Head(xs).v + Sum(Tail(xs))

RECURSIVE SumSq(_)
SumSq(xs) == IF xs = <<>> THEN 0 ELSE Head(xs).v * Head(xs).v + SumSq(Tail(xs))

\* np.mean: nan (with a RuntimeWarning) over no samples, sum/count otherwise.
np_mean(xs) ==
    IF xs = <<>> THEN [nan |-> TRUE, num |-> 0, den |-> 0]
                 ELSE [nan |-> FALSE, num |-> Sum(xs), den |-> Len(xs)]

\* np.std: nan (with a RuntimeWarning) over no samples; otherwise
\* sqrt(mean(x^2) - mean(x)^2) = sqrt(n * sum(x^2) - sum(x)^2) / n.
np_std(xs) ==
    IF xs = <<>> THEN [nan |-> TRUE, rad |-> 0, den |-> 0]
                 ELSE [nan |-> FALSE,
                       rad |-> Len(xs) * SumSq(xs) - Sum(xs) * Sum(xs),
                       den |-> Len(xs)]

\* Line 17 for one sample: (x - mean) / std = (n*x - sum) / sqrt(rad); nan
\* when x, mean or std is nan and when 0 is divided by 0.
norm_sample(x, mean, std) ==
    IF x.nan \/ mean.nan \/ std.nan
    THEN [nan |-> TRUE, num |-> 0, rad |-> 0]
    ELSE [nan |-> (std.rad = 0 /\ mean.den * x.v - mean.num = 0),
          num |-> mean.den * x.v - mean.num,
          rad |-> std.rad]

TraceIdle ==
    /\ trace_input = [timestamps |-> <<>>, aggregate_utility |-> <<>>]
    /\ trace_pc = "idle"
    /\ trace_utilities = <<>>
    /\ trace_mean = [nan |-> TRUE, num |-> 0, den |-> 0]
    /\ trace_std = [nan |-> TRUE, rad |-> 0, den |-> 0]
    /\ trace_norm = [bound |-> FALSE, a |-> <<>>]
    /\ trace_drawn = NotDrawn
    /\ trace_warned = {}
    /\ trace_raised = "none"

\* Lines 6-11: the file named on the command line has been loaded.
TraceInit ==
    /\ trace_input \in Traces
    /\ trace_pc = "utilities"
    /\ trace_utilities = <<>>
    /\ trace_mean = [nan |-> TRUE, num |-> 0, den |-> 0]
    /\ trace_std = [nan |-> TRUE, rad |-> 0, den |-> 0]
    /\ trace_norm = [bound |-> FALSE, a |-> <<>>]
    /\ trace_drawn = NotDrawn
    /\ trace_warned = {}
    /\ trace_raised = "none"

\* Lines 13-14: timestamps and utilities are bound.
read_utilities ==
    /\ trace_pc = "utilities"
    /\ trace_utilities' = [k \in 1..Len(trace_input.aggregate_utility) |->
                               to_nan(trace_input.aggregate_utility[k])]
    /\ trace_pc' = "mean"
    /\ UNCHANGED <<trace_input, trace_mean, trace_std, trace_norm, trace_drawn,
                   trace_warned, trace_raised>>
    /\ UNCHANGED <<sweepVars, trainVars>>

\* Line 15.
take_mean ==
    /\ trace_pc = "mean"
    /\ trace_mean' = np_mean(not_nan(trace_utilities))
    /\ trace_warned' = IF not_nan(trace_utilities) = <<>>
                       THEN trace_warned \cup {"Mean of empty slice"}
                       ELSE trace_warned
    /\ trace_pc' = "std"
    /\ UNCHANGED <<trace_input, trace_utilities, trace_std, trace_norm, trace_drawn,
                   trace_raised>>
    /\ UNCHANGED <<sweepVars, trainVars>>

\* Line 16.
take_std ==
    /\ trace_pc = "std"
    /\ trace_std' = np_std(not_nan(trace_utilities))
    /\ trace_warned' = IF not_nan(trace_utilities) = <<>>
                       THEN trace_warned \cup {"Degrees of freedom <= 0 for slice"}
                       ELSE trace_warned
    /\ trace_pc' = "norm"
    /\ UNCHANGED <<trace_input, trace_utilities, trace_mean, trace_norm, trace_drawn,
                   trace_raised>>
    /\ UNCHANGED <<sweepVars, trainVars>>

\* Line 17: norm_utilities is bound; a division by a zero std warns and
\* goes on.
normalize ==
    /\ trace_pc = "norm"
    /\ trace_norm' = [bound |-> TRUE,
                      a |-> [k \in 1..Len(trace_utilities) |->
                                 norm_sample(trace_utilities[k], trace_mean, trace_std)]]
    /\ trace_warned' = IF ~trace_std.nan /\ trace_std.rad = 0 /\ trace_utilities # <<>>
                       THEN trace_warned \cup {"invalid value encountered in divide"}
                       ELSE trace_warned
    /\ trace_pc' = "plot"
    /\ UNCHANGED <<trace_input, trace_utilities, trace_mean, trace_std, trace_drawn,
                   trace_raised>>
    /\ UNCHANGED <<sweepVars, trainVars>>

\* Lines 19-34: the panels are drawn; axes[0][2].plot(timestamps, utilities)
\* raises ValueError when the two differ in length.  The per-flow series
\* play no part in the normalisation and are left out.
plot_trace ==
    /\ trace_pc = "plot"
    /\ IF Len(trace_input.timestamps) = Len(trace_utilities)
       THEN /\ trace_drawn' = [drawn |-> TRUE, x |-> trace_input.timestamps,
                               y |-> trace_utilities]
            /\ trace_pc' = "show"
            /\ UNCHANGED trace_raised
       ELSE /\ trace_raised' = "ValueError"
            /\ trace_pc' = "raised"
            /\ UNCHANGED trace_drawn
    /\ UNCHANGED <<trace_input, trace_utilities, trace_mean, trace_std, trace_norm,
                   trace_warned>>
    /\ UNCHANGED <<sweepVars, trainVars>>

\* Line 36: the window is shown and closed; the script ends.
show_trace ==
    /\ trace_pc = "show"
    /\ trace_pc' = "done"
    /\ UNCHANGED <<trace_input, trace_utilities, trace_mean, trace_std, trace_norm,
                   trace_drawn, trace_warned, trace_raised>>
    /\ UNCHANGED <<sweepVars, trainVars>>

TraceNext ==
    \/ read_utilities
    \/ take_mean
    \/ take_std
    \/ normalize
    \/ plot_trace
    \/ show_trace

----------------------------------------------------------------------------
(* plot_train.py *)

TrainFiles == {"scripts", "flowforge/scripts"}

\* Sample values: rtt samples are 0 or positive.
RttValues == {0, 2}

UtilityValues == {1, 2}

BandwidthValues == {5}

\* The Training Records the script may be given; timestamps increase.
TrainingRecords ==
    {[timestamps |-> [k \in 1..n |-> k], utility |-> u, bandwidth |-> b, rtt |-> r] :
        n \in 0..MaxLen, u \in SeqsUpTo(UtilityValues),
        b \in SeqsUpTo(BandwidthValues), r \in SeqsUpTo(RttValues)}

\* Python's xs[1:].
slice_from_1(xs) == SubSeq(xs, 2, Len(xs))

\* What lines 13-16 of the named copy bind to a series of the input:
\* scripts/plot_train.py drops index 0, flowforge/scripts/plot_train.py does not.
read_array(file, xs) == IF file = "scripts" THEN slice_from_1(xs) ELSE xs

\* ndarray.min(); the caller has excluded the empty array.
array_min(xs) == CHOOSE m \in {xs[k] : k \in 1..Len(xs)} : \A k \in 1..Len(xs) : m <= xs[k]

\* (utility - utility.min()) * 10, the argument of np.exp on line 22.
exp_rescaled(u) == [k \in 1..Len(u) |-> [exp_of |-> (u[k] - array_min(u)) * 10]]

\* numpy's 1 / x for one sample: inf when x is 0, the quotient otherwise.
inverse_sample(x) ==
    IF x = 0 THEN [inf |-> TRUE, num |-> 1, den |-> 0]
             ELSE [inf |-> FALSE, num |-> 1, den |-> x]

\* Line 24: 1 / rtt, elementwise.
inverse(r) == [k \in 1..Len(r) |-> inverse_sample(r[k])]

HasZero(r) == \E k \in 1..Len(r) : r[k] = 0

TrainIdle ==
    /\ train_file = "scripts"
    /\ train_input = [timestamps |-> <<>>, utility |-> <<>>, bandwidth |-> <<>>, rtt |-> <<>>]
    /\ train_pc = "idle"
    /\ train_series = [timestamps |-> <<>>, utility |-> <<>>, bandwidth |-> <<>>, rtt |-> <<>>]
    /\ train_axes = [n \in 1..4 |-> NotDrawn]
    /\ train_warned = FALSE
    /\ train_raised = "none"

\* Lines 6-11: the file named on the command line has been loaded.
TrainInit ==
    /\ train_file \in TrainFiles
    /\ train_input \in TrainingRecords
    /\ train_pc = "read"
    /\ train_series = [timestamps |-> <<>>, utility |-> <<>>, bandwidth |-> <<>>, rtt |-> <<>>]
    /\ train_axes = [n \in 1..4 |-> NotDrawn]
    /\ train_warned = FALSE
    /\ train_raised = "none"

\* A variant of read_series that leaves rtt untrimmed.
read_series_rtt_untrimmed ==
    /\ train_pc = "read"
    /\ train_series' =
           [timestamps |-> read_array(train_file, train_input.timestamps),
            utility    |-> read_array(train_file, train_input.utility),
            bandwidth  |-> read_array(train_file, train_input.bandwidth),
            rtt        |-> train_input.rtt]
    /\ train_pc' = "plot0"
    /\ UNCHANGED <<train_file, train_input, train_axes, train_warned, train_raised>>
    /\ UNCHANGED <<sweepVars, traceVars>>

\* Lines 13-16: the four series are bound.
read_series ==
    /\ train_pc = "read"
    /\ train_series' =
           [timestamps |-> read_array(train_file, train_input.timestamps),
            utility    |-> read_array(train_file, train_input.utility),
            bandwidth  |-> read_array(train_file, train_input.bandwidth),
            rtt        |-> read_array(train_file, train_input.rtt)]
    /\ train_pc' = "plot0"
    /\ UNCHANGED <<train_file, train_input, train_axes, train_warned, train_raised>>
    /\ UNCHANGED <<sweepVars, traceVars>>

\* axes[n-1].plot(x, y): raises ValueError when x and y differ in length.
plot(n, x, y, next) ==
    IF Len(x) = Len(y)
    THEN /\ train_axes' = [train_axes EXCEPT ![n] = [drawn |-> TRUE, x |-> x, y |-> y]]
         /\ train_pc' = next
         /\ UNCHANGED train_raised
    ELSE /\ train_raised' = "ValueError"
         /\ train_pc' = "raised"
         /\ UNCHANGED train_axes

\* Lines 19-21: the figure is made and the utility drawn.
plot_utility ==
    /\ train_pc = "plot0"
    /\ plot(1, train_series.timestamps, train_series.utility, "plot1")
    /\ UNCHANGED <<train_file, train_input, train_series, train_warned>>
    /\ UNCHANGED <<sweepVars, traceVars>>

\* Line 22: the rescaled utility; utility.min() raises ValueError on an
\* empty array.
plot_exp_utility ==
    /\ train_pc = "plot1"
    /\ IF train_series.utility = <<>>
       THEN /\ train_raised' = "ValueError"
            /\ train_pc' = "raised"
            /\ UNCHANGED train_axes
       ELSE plot(2, train_series.timestamps, exp_rescaled(train_series.utility), "plot2")
    /\ UNCHANGED <<train_file, train_input, train_series, train_warned>>
    /\ UNCHANGED <<sweepVars, traceVars>>

\* Line 23: the bandwidth.
plot_bandwidth ==
    /\ train_pc = "plot2"
    /\ plot(3, train_series.timestamps, train_series.bandwidth, "plot3")
    /\ UNCHANGED <<train_file, train_input, train_series, train_warned>>
    /\ UNCHANGED <<sweepVars, traceVars>>

\* Line 24: 1/rtt is computed (numpy warns about a division by zero and
\* goes on), then drawn.
plot_inverse_rtt ==
    /\ train_pc = "plot3"
    /\ train_warned' = HasZero(train_series.rtt)
    /\ plot(4, train_series.timestamps, inverse(train_series.rtt), "show")
    /\ UNCHANGED <<train_file, train_input, train_series>>
    /\ UNCHANGED <<sweepVars, traceVars>>

\* Line 26: the window is shown and closed; the script ends.
show ==
    /\ train_pc = "show"
    /\ train_pc' = "done"
    /\ UNCHANGED <<train_file, train_input, train_series, train_axes, train_warned,
                   train_raised>>
    /\ UNCHANGED <<sweepVars, traceVars>>

TrainNext ==
    \/ read_series
    \/ plot_utility
    \/ plot_exp_utility
    \/ plot_bandwidth
    \/ plot_inverse_rtt
    \/ show

----------------------------------------------------------------------------
(* Specifications *)

Next == \E p \in Procs : Step(p)

Init == SweepInit /\ TrainIdle /\ TraceIdle

Spec == Init /\ [][Next]_vars

\* The sweep does not halt while a step is possible: the launches keep being
\* scheduled and a running trainer eventually exits.
FairSpec == Spec /\ WF_vars(Next)

\* plot_train.py alone.
TrainSpecInit == SweepIdle /\ TrainInit /\ TraceIdle

TrainSpec == TrainSpecInit /\ [][TrainNext]_vars

\* plot_trace.py alone.
TraceSpecInit == SweepIdle /\ TrainIdle /\ TraceInit

TraceSpec == TraceSpecInit /\ [][TraceNext]_vars

----------------------------------------------------------------------------
(* Properties of the sweep *)

\* C1: whatever the exit statuses, the status of each completed run is the
\* value os.system returned for that run, no run is dropped from the queue,
\* and a launch that has ended has started every planned RunSpec.
C1_SweepContinuation ==
    \A p \in Procs :
        /\ Len(results[p]) <= Len(children[p])
        /\ \A k \in 1..Len(results[p]) :
               /\ children[p][k].st = "exited"
               /\ results[p][k] = children[p][k].status
        /\ Len(children[p]) + Len(queue[p]) + (IF pc[p] = "system" THEN 1 ELSE 0)
               = Len(Parameters)
        /\ pc[p] = "done" => Len(children[p]) = Len(Parameters)

\* A run has exited non-zero, its status was returned, and a later RunSpec of
\* the same sweep has been started.
C1_Witness ==
    \E p \in Procs : \E k \in 1..Len(results[p]) :
        /\ results[p][k] # 0
        /\ Len(children[p]) > k

\* The RunSpecs of the forward and of the reversed sweep have pairwise
\* distinct DNA paths and pairwise distinct progress-log paths.
PlansDisjoint ==
    \A sw, tw \in Sweeps : \A k, j \in 1..Len(Parameters) :
        <<sw, k>> # <<tw, j>> =>
            /\ plans[sw][k].dna # plans[tw][j].dna
            /\ plans[sw][k].progress # plans[tw][j].progress
            /\ plans[sw][k].dna # plans[tw][j].progress

\* C2: with one launch the forward sweep (new) and the other the reversed
\* sweep (new2), all eight RunSpecs have pairwise distinct DNA paths and
\* pairwise distinct progress-log paths, and no output path has been opened by
\* more than one run.
C2_PathDisjointness ==
    (sweep["p1"] # sweep["p2"]) =>
        /\ PlansDisjoint
        /\ \A e, f \in fs : e.path = f.path => (e.proc = f.proc /\ e.k = f.k)

\* The forward and the reversed sweep have both written the outputs of the
\* same delta.
C2_Witness ==
    /\ sweep["p1"] # sweep["p2"]
    /\ \E e, f \in fs :
           /\ e.proc # f.proc
           /\ children[e.proc][e.k].delta = children[f.proc][f.k].delta

ExpectedReversedDna ==
    << "trained/remyr/new2/delta100/delta100.remyr.dna",
       "trained/remyr/new2/delta10/delta10.remyr.dna",
       "trained/remyr/new2/delta1/delta1.remyr.dna",
       "trained/remyr/new2/delta0.1/delta0.1.remyr.dna" >>

ExpectedReversedProgress ==
    << "trained/remyr/new2/delta100/trainout.json",
       "trained/remyr/new2/delta10/trainout.json",
       "trained/remyr/new2/delta1/trainout.json",
       "trained/remyr/new2/delta0.1/trainout.json" >>

ExpectedForwardDna ==
    << "trained/remyr/new/delta0.1/delta0.1.remyr.dna",
       "trained/remyr/new/delta1/delta1.remyr.dna",
       "trained/remyr/new/delta10/delta10.remyr.dna",
       "trained/remyr/new/delta100/delta100.remyr.dna" >>

ExpectedForwardProgress ==
    << "trained/remyr/new/delta0.1/trainout.json",
       "trained/remyr/new/delta1/trainout.json",
       "trained/remyr/new/delta10/trainout.json",
       "trained/remyr/new/delta100/trainout.json" >>

\* C3: the forward sweep starts its trainers for 0.1, 1, 10, 100 in that
\* order with outputs under trained/remyr/new/delta<delta>/, the reversed
\* sweep for 100, 10, 1, 0.1 in that order with outputs under
\* trained/remyr/new2/delta<delta>/; both cover the same set of deltas.
C3_PlanOrder ==
    /\ {order(Parameters, "reversed")[k] : k \in 1..Len(Parameters)}
           = {order(Parameters, "forward")[k] : k \in 1..Len(Parameters)}
    /\ \A p \in Procs : \A k \in 1..Len(children[p]) :
           /\ sweep[p] = ReversedSweep =>
                  /\ children[p][k].delta = <<"100", "10", "1", "0.1">>[k]
                  /\ children[p][k].cmd.dna = ExpectedReversedDna[k]
                  /\ children[p][k].cmd.progress = ExpectedReversedProgress[k]
           /\ sweep[p] = ForwardSweep =>
                  /\ children[p][k].delta = <<"0.1", "1", "10", "100">>[k]
                  /\ children[p][k].cmd.dna = ExpectedForwardDna[k]
                  /\ children[p][k].cmd.progress = ExpectedForwardProgress[k]
           /\ children[p][k].cmd = plans[sweep[p]][k]

\* A reversed sweep and a forward sweep have each started all four trainers.
C3_Witness ==
    \E p, q \in Procs :
        /\ sweep[p] = ReversedSweep /\ Len(children[p]) = Len(Parameters)
        /\ sweep[q] = ForwardSweep /\ Len(children[q]) = Len(Parameters)

\* Two RunSpecs of the merged queue resolve to the same output path.
PathCollision ==
    \E p, q \in Procs : \E k, j \in 1..Len(Parameters) :
        /\ <<p, k>> # <<q, j>>
        /\ outputs(plans[sweep[p]][k]) \cap outputs(plans[sweep[q]][j]) # {}

\* C4: when two RunSpecs of the queue resolve to the same output path,
\* planning fails before any trainer invocation is started.
C4_FailFastCollision ==
    PathCollision => \A p \in Procs : children[p] = <<>>

\* C5: a sweep has at most one live trainer, and its (k+1)-th trainer is
\* started only after the k-th has exited and os.system has returned its
\* status.
C5_StrictlySequential ==
    \A p \in Procs :
        /\ Cardinality({k \in 1..Len(children[p]) : children[p][k].st # "exited"}) <= 1
        /\ \A k \in 1..Len(children[p]) :
               k < Len(children[p]) =>
                   /\ children[p][k].st = "exited"
                   /\ Len(results[p]) >= k

\* A sweep's second trainer is running.
C5_Witness ==
    \E p \in Procs :
        /\ Len(children[p]) >= 2
        /\ children[p][Len(children[p])].st = "running"

\* Runs x and y differ in all three paths.
AllPathsDiffer(x, y) ==
    /\ x.cmd.util # y.cmd.util
    /\ x.cmd.dna # y.cmd.dna
    /\ x.cmd.progress # y.cmd.progress

\* C6 as stated: the utility-config, DNA and progress-log paths of two runs
\* all differ when the runs have the same delta in different namespaces, and
\* when they have different deltas in the same namespace.
C6_AllPathsNamespaced ==
    \A p, q \in Procs : \A k \in 1..Len(children[p]) : \A j \in 1..Len(children[q]) :
        LET x == children[p][k]
            y == children[q][j]
        IN  (\/ (x.delta = y.delta /\ sweep[p].ns # sweep[q].ns)
             \/ (x.delta # y.delta /\ sweep[p].ns = sweep[q].ns))
            => AllPathsDiffer(x, y)

\* C6 amended: the DNA and progress-log paths differ in both cases; the
\* utility-config path is keyed by the delta alone, so it differs between
\* deltas and is shared by the runs of one delta in different namespaces.
C6_OutputPathsNamespaced ==
    \A p, q \in Procs : \A k \in 1..Len(children[p]) : \A j \in 1..Len(children[q]) :
        LET x == children[p][k]
            y == children[q][j]
        IN  /\ (x.delta = y.delta /\ sweep[p].ns # sweep[q].ns) =>
                   /\ x.cmd.util = y.cmd.util
                   /\ x.cmd.dna # y.cmd.dna
                   /\ x.cmd.progress # y.cmd.progress
            /\ (x.delta # y.delta /\ sweep[p].ns = sweep[q].ns) => AllPathsDiffer(x, y)

\* Both cases are present: one delta started in two namespaces, and two
\* deltas started in one namespace.
C6_Witness ==
    /\ \E p, q \in Procs : \E k \in 1..Len(children[p]) : \E j \in 1..Len(children[q]) :
           children[p][k].delta = children[q][j].delta /\ sweep[p].ns # sweep[q].ns
    /\ \E p, q \in Procs : \E k \in 1..Len(children[p]) : \E j \in 1..Len(children[q]) :
           children[p][k].delta # children[q][j].delta /\ sweep[p].ns = sweep[q].ns

\* Launch p has ended with every planned RunSpec executed exactly once, one
\* os.system return value per RunSpec, in plan order.
Completed(p) ==
    /\ pc[p] = "done"
    /\ Len(children[p]) = Len(Parameters)
    /\ \A k \in 1..Len(Parameters) :
           /\ children[p][k].cmd = plans[sweep[p]][k]
           /\ children[p][k].st = "exited"
    /\ \A k, j \in 1..Len(Parameters) :
           children[p][k].cmd = children[p][j].cmd => k = j
    /\ Len(results[p]) = Len(Parameters)
    /\ \A k \in 1..Len(Parameters) : results[p][k] = children[p][k].status

\* C7: when every trainer eventually exits, every sweep eventually ends and
\* stays ended, having executed each planned RunSpec exactly once with the
\* return values in plan order, whatever the exit statuses.
C7_SweepCompletion ==
    /\ <>[](\A p \in Procs : Completed(p))
    /\ [](\A p \in Procs : pc[p] = "done" => Completed(p))

\* Every sweep has ended although every trainer exited non-zero.
C7_Witness ==
    \A p \in Procs :
        /\ pc[p] = "done"
        /\ \A k \in 1..Len(Parameters) : results[p][k] # 0

----------------------------------------------------------------------------
(* Properties of plot_train.py *)

SeriesNames == {"timestamps", "utility", "bandwidth", "rtt"}

\* C8: the inverse-RTT view of a series with a sample that is exactly 0 ends
\* in a division error and yields no result series.
C8_InverseRttSignalsError ==
    (train_pc \in {"show", "done"} /\ HasZero(train_series.rtt)) =>
        /\ train_raised # "none"
        /\ ~train_axes[4].drawn

\* C10: in the copy that discards the warm-up sample, a Training Record whose
\* four series have equal length n >= 1 is read as four series of length
\* n - 1 whose element k is element k + 1 of the input; the other copy reads
\* the four series as they are.
C10_TrimmedTogether ==
    (train_pc \notin {"idle", "read"}
       /\ \A f \in SeriesNames : Len(train_input[f]) = Len(train_input.timestamps)
       /\ Len(train_input.timestamps) >= 1) =>
        /\ train_file = "scripts" =>
               \A f \in SeriesNames :
                   /\ Len(train_series[f]) = Len(train_input.timestamps) - 1
                   /\ \A k \in 1..Len(train_series[f]) :
                          train_series[f][k] = train_input[f][k + 1]
        /\ train_file = "flowforge/scripts" =>
               \A f \in SeriesNames : train_series[f] = train_input[f]

\* The trimming copy has read a record of MaxLen aligned samples whose rtt
\* samples are not all alike.
C10_Witness ==
    /\ train_file = "scripts"
    /\ train_pc = "plot0"
    /\ \A f \in SeriesNames : Len(train_input[f]) = MaxLen
    /\ train_input.rtt[1] # train_input.rtt[2]
    /\ Len(train_series.rtt) = MaxLen - 1

----------------------------------------------------------------------------
(* Properties of plot_trace.py *)

AllMissing(u) == \A k \in 1..Len(u) : u[k].null

\* C9: normalising a utility series whose samples are all missing (the
\* empty series included) fails with an EmptySeries condition and binds no
\* normalised series.
C9_NormalizeEmptySeries ==
    (trace_pc \in {"plot", "show", "done"} /\ AllMissing(trace_input.aggregate_utility)) =>
        /\ trace_raised # "none"
        /\ ~trace_norm.bound

====
